---- MODULE Spec2Model ----
(***************************************************************************)
(* The optimisation core of tsp-geojson: the nearest-neighbour             *)
(* constructor (solve_tsp_greedy), the 2-opt refiner (solve_tsp_2opt) and  *)
(* the simulated-annealing refiner (solve_tsp_simulated_annealing) of      *)
(* src/tsp_solver.py, and the distance-matrix builder                      *)
(* (calculate_distance_matrix) of src/distance.py, each as a state machine *)
(* over its local variables.                                               *)
(*                                                                         *)
(* Python lists are sequences; list positions are 0-based in the source    *)
(* and are kept 0-based here through At.  Node indices are 0..N-1 and a    *)
(* matrix is a function over them.  None is the empty sequence and an      *)
(* optional number is a sequence of length 0 or 1.  Distances and times    *)
(* are integers.                                                           *)
(***************************************************************************)
EXTENDS Integers, Sequences, FiniteSets, TLC

----------------------------------------------------------------------------
(* Bounds of the checked inputs. *)

\* Largest number of points of a call of the constructor without time
\* windows and of a call of the 2-opt refiner.
MaxN == 5
\* Largest number of points of a call of the annealing refiner.
MaxNodesSA == 3
\* Largest max_iterations of a call of the 2-opt refiner.
MaxIterations == 3
\* Largest initial_temp of a call of the annealing refiner.
MaxTemp == 3
\* The min_temp of a call of the annealing refiner.
MinTemp == 1
\* Largest max_iterations_per_temp of a call of the annealing refiner.
MaxInner == 2
\* Largest number of points of a time-window call.
MaxNodesTW == 3
\* Largest number of points of a call of calculate_distance_matrix.
MaxPlaces == 3
\* Largest single distance (and travel time) of a generated matrix.
MaxDist == 3
\* Generated matrices are numbered 0..MaxSeed.
MaxSeed == 7
\* Generated travel-time matrices are numbered 0..MaxTimeSeed.
MaxTimeSeed == 1
\* Generated point lists (time windows) are numbered 0..MaxWindowSeed.
MaxWindowSeed == 11
\* Largest open time of a generated time window.
MaxTime == 3

----------------------------------------------------------------------------
(* Values of the source. *)

\* None (and every other falsy list: Python's `if places` treats both alike).
NoneVal == <<>>

\* float('inf'): larger than every distance and every time of the model.
Infinity == 999999

Truthy(x) == x # NoneVal

Some(x) == <<x>>

IsSome(opt) == opt # NoneVal

ValueOf(opt) == opt[1]

Max(a, b) == IF a >= b THEN a ELSE b

Min(a, b) == IF a <= b THEN a ELSE b

\* len(dist_matrix)
NumNodes(dm) == Cardinality(DOMAIN dm)

\* lst[k] with k counted from 0
At(lst, k) == lst[k + 1]

\* lst[-1]
LastOf(lst) == lst[Len(lst)]

\* lst[a:b] with 0-based a (inclusive) and b (exclusive)
Slice(lst, a, b) == SubSeq(lst, a + 1, b)

\* list.reverse()
Reverse(lst) == [k \in 1..Len(lst) |-> lst[Len(lst) + 1 - k]]

\* The set of elements of a list.
Elems(lst) == {lst[k] : k \in 1..Len(lst)}

----------------------------------------------------------------------------
(* The inputs the checks draw from. *)

\* Entry (i, j) of generated matrix number s: zero on the diagonal, symmetric
\* for even s and not symmetric for odd s.
Cell(s, i, j) ==
    IF i = j THEN 0
    ELSE LET a == IF s % 2 = 0 THEN Min(i, j) ELSE i
             b == IF s % 2 = 0 THEN Max(i, j) ELSE j
         IN  (s * (a + 2 * b + 1) + (s \div 2) * a * b + a + b) % (MaxDist + 1)

Matrix(n, s) == [i \in 0..(n - 1) |-> [j \in 0..(n - 1) |-> Cell(s, i, j)]]

\* example_dist_matrix of the source's self-test.
ExampleDistMatrix ==
    [i \in 0..3 |-> [j \in 0..3 |->
        At(At(<< <<0, 10, 15, 20>>, <<10, 0, 35, 25>>,
                 <<15, 35, 0, 30>>, <<20, 25, 30, 0>> >>, i), j)]]

\* small_dist_matrix of the source's self-test.
SmallDistMatrix ==
    [i \in 0..1 |-> [j \in 0..1 |-> At(At(<< <<0, 1>>, <<1, 0>> >>, i), j)]]

\* three_nodes_dist_matrix of the source's self-test.
ThreeNodesDistMatrix ==
    [i \in 0..2 |-> [j \in 0..2 |->
        At(At(<< <<0, 10, 15>>, <<10, 0, 35>>, <<15, 35, 0>> >>, i), j)]]

ExampleMatrices == {ExampleDistMatrix, SmallDistMatrix, ThreeNodesDistMatrix}

\* The distance matrices of at most maxn points.
Matrices(maxn) ==
    {Matrix(n, s) : n \in 0..maxn, s \in 0..MaxSeed}
        \cup {m \in ExampleMatrices : NumNodes(m) <= maxn}

\* Place number i of generated point list number w: Place.open_time and
\* Place.close_time, each optional, with open_time < close_time when both
\* are given (read_places_from_csv refuses every other row).  A close time
\* given alone may lie before the tour's start at hour 0.
PlaceOf(w, i) ==
    LET osel == (w + i) % (MaxTime + 2)
        csel == ((w \div 2) + 2 * i) % (MaxTime + 2)
        open == IF osel = 0 THEN NoneVal ELSE Some(osel - 1)
        base == IF osel = 0 THEN 0 - 2 ELSE osel - 1
    IN  [open_time  |-> open,
         close_time |-> IF csel = 0 THEN NoneVal ELSE Some(base + csel)]

Places(n, w) == [i \in 0..(n - 1) |-> PlaceOf(w, i)]

\* All orders of the nodes 0..n-1, as lists.
Perms(n) ==
    {p \in [1..n -> 0..(n - 1)] : \A a, b \in 1..n : p[a] = p[b] => a = b}

\* A list followed by its own first element.
Closed(p) == p \o <<p[1]>>

----------------------------------------------------------------------------
(* solve_tsp_greedy, its pure parts. *)

\* `travel_time_matrix and places`: time-window mode is on.
TimeWindowMode(pl, ttm) == Truthy(ttm) /\ Truthy(pl)

\* ValidStart without its lower bound.
ValidStartNoLowerBound(dm, start) == start < NumNodes(dm)

\* `0 <= start_node_idx < num_nodes`
ValidStart(dm, start) == 0 <= start /\ start < NumNodes(dm)

\* The clock at the start node: 0, or the start's open time if later.
StartTime(pl, start) ==
    IF Truthy(pl) /\ IsSome(pl[start].open_time)
    THEN Max(0, ValueOf(pl[start].open_time))
    ELSE 0

\* The start node closes before the tour can begin.
CannotStart(pl, start, time) ==
    /\ Truthy(pl)
    /\ IsSome(pl[start].close_time)
    /\ time > ValueOf(pl[start].close_time)

\* ArrivalAtNeighbor that does not wait for nb to open.
ArrivalAtNeighborNoWait(pl, ttm, cur, nb, time) ==
    IF TimeWindowMode(pl, ttm) THEN time + ttm[cur][nb] ELSE time

\* arrival_at_neighbor: the clock on reaching nb from cur, after any wait for
\* nb to open; the clock itself when time-window mode is off.
ArrivalAtNeighbor(pl, ttm, cur, nb, time) ==
    IF TimeWindowMode(pl, ttm)
    THEN LET arrival == time + ttm[cur][nb]
         IN  IF IsSome(pl[nb].open_time) /\ arrival < ValueOf(pl[nb].open_time)
             THEN ValueOf(pl[nb].open_time)
             ELSE arrival
    ELSE time

\* The `continue` of the scan: nb cannot be visited in time.
TooLate(pl, ttm, nb, arrival) ==
    /\ TimeWindowMode(pl, ttm)
    /\ IsSome(pl[nb].close_time)
    /\ arrival > ValueOf(pl[nb].close_time)

\* Closer with <= for <: the last of several equally near neighbours wins.
CloserOrEqual(metric, min_metric) == metric <= min_metric

\* `metric < min_metric`
Closer(metric, min_metric) == metric < min_metric

\* The for loop over neighbor_idx of one pass of the while loop: scan[k] is
\* (nearest_neighbor_idx, min_metric, best_arrival_at_next) after neighbours
\* 0..k-1 were looked at.
NearestNeighbor(dm, pl, ttm, vis, cur, time) ==
    LET n == NumNodes(dm)
        scan[k \in 0..n] ==
            IF k = 0
            THEN [nearest_neighbor_idx |-> 0 - 1,
                  min_metric |-> Infinity,
                  best_arrival_at_next |-> Infinity]
            ELSE LET prev == scan[k - 1]
                     nb == k - 1
                     arrival == ArrivalAtNeighbor(pl, ttm, cur, nb, time)
                 IN  IF nb \in vis THEN prev
                     ELSE IF TooLate(pl, ttm, nb, arrival) THEN prev
                     ELSE IF Closer(dm[cur][nb], prev.min_metric)
                          THEN [nearest_neighbor_idx |-> nb,
                                min_metric |-> dm[cur][nb],
                                best_arrival_at_next |-> arrival]
                          ELSE prev
    IN  scan[n]

\* Advance that leaves current_node_idx where it was.
AdvanceStaysPut(dm, st, found) ==
    [path |-> Append(st.path, found.nearest_neighbor_idx),
     visited |-> st.visited \cup {found.nearest_neighbor_idx},
     current_node_idx |-> st.current_node_idx,
     total_distance |->
         st.total_distance + dm[st.current_node_idx][found.nearest_neighbor_idx],
     current_time |-> found.best_arrival_at_next]

\* The locals (path, visited, current_node_idx, total_distance, current_time)
\* after the found neighbour is appended.
Advance(dm, st, found) ==
    [path |-> Append(st.path, found.nearest_neighbor_idx),
     visited |-> st.visited \cup {found.nearest_neighbor_idx},
     current_node_idx |-> found.nearest_neighbor_idx,
     total_distance |->
         st.total_distance + dm[st.current_node_idx][found.nearest_neighbor_idx],
     current_time |-> found.best_arrival_at_next]

\* CanReturnLeg with >= for >: an arrival at the very close time is late.
CanReturnLegNotAtClose(pl, ttm, start, last, time) ==
    ~ ( /\ TimeWindowMode(pl, ttm)
        /\ IsSome(pl[start].close_time)
        /\ time + ttm[last][start] >= ValueOf(pl[start].close_time) )

\* The return leg fits the start node's time window.
CanReturnLeg(pl, ttm, start, last, time) ==
    ~ ( /\ TimeWindowMode(pl, ttm)
        /\ IsSome(pl[start].close_time)
        /\ time + ttm[last][start] > ValueOf(pl[start].close_time) )

\* ReturnToStart that closes a path that does not hold every node.
ReturnToStartAlways(dm, pl, ttm, start, mrt, p, total, time) ==
    IF mrt /\ CanReturnLeg(pl, ttm, start, LastOf(p), time)
    THEN [status |-> "returned",
          path |-> Append(p, start),
          distance |-> total + dm[LastOf(p)][start]]
    ELSE [status |-> "returned", path |-> p, distance |-> total]

\* ReturnToStart that closes the path and leaves the return leg out of the
\* distance.
ReturnToStartUncounted(dm, pl, ttm, start, mrt, p, total, time) ==
    IF mrt /\ Len(p) = NumNodes(dm)
          /\ CanReturnLeg(pl, ttm, start, LastOf(p), time)
    THEN [status |-> "returned", path |-> Append(p, start), distance |-> total]
    ELSE [status |-> "returned", path |-> p, distance |-> total]

\* What solve_tsp_greedy returns once its while loop is left.
ReturnToStart(dm, pl, ttm, start, mrt, p, total, time) ==
    IF mrt /\ Len(p) = NumNodes(dm)
          /\ CanReturnLeg(pl, ttm, start, LastOf(p), time)
    THEN [status |-> "returned",
          path |-> Append(p, start),
          distance |-> total + dm[LastOf(p)][start]]
    ELSE [status |-> "returned", path |-> p, distance |-> total]

\* The while loop run to its end, from the locals st.  The locals s of a
\* pass and the neighbour f its scan finds are each worked out once and then
\* used as values.
RECURSIVE GreedyLoop(_, _, _, _)
GreedyLoop(dm, pl, ttm, st) ==
    LET After(s, found) ==
            IF found.nearest_neighbor_idx = 0 - 1 THEN s
            ELSE GreedyLoop(dm, pl, ttm, Advance(dm, s, found))
        From(s) ==
            IF Len(s.path) < NumNodes(dm)
            THEN CHOOSE r \in
                     {After(s, f) : f \in {NearestNeighbor(
                         dm, pl, ttm, s.visited, s.current_node_idx,
                         s.current_time)}} : TRUE
            ELSE s
    IN  CHOOSE r \in {From(s) : s \in {st}} : TRUE

\* solve_tsp_greedy as one call (the refiners call it for a missing path).
SolveTspGreedy(dm, start, mrt, pl, ttm) ==
    IF NumNodes(dm) = 0
    THEN [status |-> "returned", path |-> <<>>, distance |-> 0]
    ELSE IF ~ ValidStart(dm, start)
    THEN [status |-> "raised", path |-> <<>>, distance |-> 0]
    ELSE IF CannotStart(pl, start, StartTime(pl, start))
    THEN [status |-> "returned", path |-> <<>>, distance |-> 0]
    ELSE LET st == GreedyLoop(dm, pl, ttm,
                       [path |-> <<start>>, visited |-> {start},
                        current_node_idx |-> start, total_distance |-> 0,
                        current_time |-> StartTime(pl, start)])
         IN  ReturnToStart(dm, pl, ttm, start, mrt,
                           st.path, st.total_distance, st.current_time)

\* calculate_path_distance
CalculatePathDistance(p, dm) ==
    LET acc[k \in 0..Max(Len(p) - 1, 0)] ==
            IF k = 0 THEN 0 ELSE acc[k - 1] + dm[At(p, k - 1)][At(p, k)]
    IN  acc[Max(Len(p) - 1, 0)]

----------------------------------------------------------------------------
(* The state: the arguments of the running call, the locals of the three   *)
(* functions under the names the source gives them, the position in the    *)
(* code and what the call gave back.                                       *)

VARIABLES
    pc,                     \* where the running call stands
    result,                 \* [status, path, distance] of the call
    dist_matrix,
    start_node_idx,
    must_return_to_start,
    places,
    travel_time_matrix,
    initial_path,
    max_iterations,
    initial_temp,
    cooling_rate,           \* <<numerator, denominator>>
    min_temp,
    max_iterations_per_temp,
    path,                   \* solve_tsp_greedy
    visited,
    current_node_idx,
    total_distance,
    current_time,
    best_path,              \* solve_tsp_2opt and solve_tsp_simulated_annealing
    best_distance,
    path_to_optimize,       \* solve_tsp_2opt
    improved,
    iter_count,
    i,
    j,
    current_path,           \* solve_tsp_simulated_annealing
    current_distance,
    path_core,
    unique_start_node,
    temp,                   \* <<numerator, denominator>>
    inner                   \* inner iterations done at this temperature

args == <<dist_matrix, start_node_idx, must_return_to_start, places,
          travel_time_matrix, initial_path, max_iterations, initial_temp,
          cooling_rate, min_temp, max_iterations_per_temp>>

greedy_locals == <<path, visited, current_node_idx, total_distance, current_time>>

best == <<best_path, best_distance>>

two_opt_locals == <<path_to_optimize, improved, iter_count, i, j>>

sa_locals == <<current_path, current_distance, path_core, unique_start_node,
               temp, inner>>

vars == <<pc, result, args, greedy_locals, best, two_opt_locals, sa_locals>>

num_nodes == NumNodes(dist_matrix)

NoResult == [status |-> "none", path |-> <<>>, distance |-> 0]

Returned(p, d) == [status |-> "returned", path |-> p, distance |-> d]

Raised == [status |-> "raised", path |-> <<>>, distance |-> 0]

\* The locals of a function that is not running.
GreedyIdle ==
    /\ path = <<>> /\ visited = {} /\ current_node_idx = 0
    /\ total_distance = 0 /\ current_time = 0

BestIdle == best_path = <<>> /\ best_distance = 0

TwoOptIdle ==
    /\ path_to_optimize = <<>> /\ improved = FALSE /\ iter_count = 0
    /\ i = 0 /\ j = 0

SAIdle ==
    /\ current_path = <<>> /\ current_distance = 0 /\ path_core = <<>>
    /\ unique_start_node = 0 /\ temp = <<0, 1>> /\ inner = 0

\* The arguments a call of solve_tsp_greedy does not take.
NoRefinerArgs ==
    /\ initial_path = NoneVal /\ max_iterations = 0 /\ initial_temp = 0
    /\ cooling_rate = <<1, 1>> /\ min_temp = 0 /\ max_iterations_per_temp = 0

----------------------------------------------------------------------------
(* solve_tsp_greedy *)

\* A call of solve_tsp_greedy: any matrix and any start index, valid or one
\* off either end; without places and travel times for up to MaxN points, and
\* with either or both of them for up to MaxNodesTW points.
InitGreedy ==
    /\ pc = "greedy_call"
    /\ result = NoResult
    /\ \/ /\ dist_matrix \in Matrices(MaxN)
          /\ places = NoneVal
          /\ travel_time_matrix = NoneVal
       \/ /\ dist_matrix \in Matrices(MaxNodesTW)
          /\ places \in {NoneVal} \cup
                 {Places(num_nodes, w) : w \in 0..MaxWindowSeed}
          /\ travel_time_matrix \in {NoneVal} \cup
                 {Matrix(num_nodes, t) : t \in 0..MaxTimeSeed}
    /\ start_node_idx \in (0 - 1)..num_nodes
    /\ must_return_to_start \in BOOLEAN
    /\ NoRefinerArgs
    /\ GreedyIdle /\ BestIdle /\ TwoOptIdle /\ SAIdle

\* `if num_nodes == 0: return [], 0.0`
GreedyEmpty ==
    /\ pc = "greedy_call"
    /\ num_nodes = 0
    /\ result' = Returned(<<>>, 0)
    /\ pc' = "done"
    /\ UNCHANGED <<args, greedy_locals, best, two_opt_locals, sa_locals>>

\* `raise ValueError("Invalid start_node_idx")`
GreedyInvalidStart ==
    /\ pc = "greedy_call"
    /\ num_nodes # 0
    /\ ~ ValidStart(dist_matrix, start_node_idx)
    /\ result' = Raised
    /\ pc' = "done"
    /\ UNCHANGED <<args, greedy_locals, best, two_opt_locals, sa_locals>>

\* The locals are set up; the start node is closed already: `return [], 0.0`
GreedyCannotStart ==
    /\ pc = "greedy_call"
    /\ num_nodes # 0
    /\ ValidStart(dist_matrix, start_node_idx)
    /\ CannotStart(places, start_node_idx, StartTime(places, start_node_idx))
    /\ path' = <<start_node_idx>>
    /\ visited' = {start_node_idx}
    /\ current_node_idx' = start_node_idx
    /\ total_distance' = 0
    /\ current_time' = StartTime(places, start_node_idx)
    /\ result' = Returned(<<>>, 0)
    /\ pc' = "done"
    /\ UNCHANGED <<args, best, two_opt_locals, sa_locals>>

\* The locals are set up and the while loop is reached.
GreedyBegin ==
    /\ pc = "greedy_call"
    /\ num_nodes # 0
    /\ ValidStart(dist_matrix, start_node_idx)
    /\ ~ CannotStart(places, start_node_idx, StartTime(places, start_node_idx))
    /\ path' = <<start_node_idx>>
    /\ visited' = {start_node_idx}
    /\ current_node_idx' = start_node_idx
    /\ total_distance' = 0
    /\ current_time' = StartTime(places, start_node_idx)
    /\ pc' = "greedy_while"
    /\ UNCHANGED <<result, args, best, two_opt_locals, sa_locals>>

\* The neighbour the scan of this pass of the while loop ends with.
Found ==
    NearestNeighbor(dist_matrix, places, travel_time_matrix, visited,
                    current_node_idx, current_time)

GreedyLocals ==
    [path |-> path, visited |-> visited, current_node_idx |-> current_node_idx,
     total_distance |-> total_distance, current_time |-> current_time]

\* One pass of the while loop that appends a node.
GreedyStep ==
    /\ pc = "greedy_while"
    /\ Len(path) < num_nodes
    /\ Found.nearest_neighbor_idx # 0 - 1
    /\ LET next == Advance(dist_matrix, GreedyLocals, Found)
       IN  /\ path' = next.path
           /\ visited' = next.visited
           /\ current_node_idx' = next.current_node_idx
           /\ total_distance' = next.total_distance
           /\ current_time' = next.current_time
    /\ UNCHANGED <<pc, result, args, best, two_opt_locals, sa_locals>>

\* The pass of the while loop that finds no neighbour: `break`, and the call
\* returns what it has.
GreedyHalt ==
    /\ pc = "greedy_while"
    /\ Len(path) < num_nodes
    /\ Found.nearest_neighbor_idx = 0 - 1
    /\ result' = ReturnToStart(dist_matrix, places, travel_time_matrix,
                               start_node_idx, must_return_to_start,
                               path, total_distance, current_time)
    /\ pc' = "done"
    /\ UNCHANGED <<args, greedy_locals, best, two_opt_locals, sa_locals>>

\* The while loop ends with every node in the path; the return leg, and the
\* call returns.
GreedyFinish ==
    /\ pc = "greedy_while"
    /\ ~ (Len(path) < num_nodes)
    /\ result' = ReturnToStart(dist_matrix, places, travel_time_matrix,
                               start_node_idx, must_return_to_start,
                               path, total_distance, current_time)
    /\ pc' = "done"
    /\ UNCHANGED <<args, greedy_locals, best, two_opt_locals, sa_locals>>

NextGreedy ==
    \/ GreedyEmpty
    \/ GreedyInvalidStart
    \/ GreedyCannotStart
    \/ GreedyBegin
    \/ GreedyStep
    \/ GreedyHalt
    \/ GreedyFinish

SpecGreedy == InitGreedy /\ [][NextGreedy]_vars

----------------------------------------------------------------------------
(* solve_tsp_2opt *)

\* NotClosed that looks at emptiness alone.
NotClosedEmptyOnly(p) == p = <<>>

\* `not current_path or current_path[0] != current_path[-1]`
NotClosed(p) == p = <<>> \/ At(p, 0) # LastOf(p)

\* The open core of a path: without its last element when the path is to be
\* closed, has more than one element and ends where it starts.
CoreOf(p, mrt) ==
    IF mrt /\ Len(p) > 1 /\ At(p, 0) = LastOf(p)
    THEN Slice(p, 0, Len(p) - 1)
    ELSE p

\* TooShort with 3 for 4.
TooShortBelowThree(core) == Len(core) < 3

\* `len(path_to_optimize) < 4`
TooShort(core) == Len(core) < 4

\* ReverseSegment that starts one position early.
ReverseSegmentOneEarly(core, a, b) ==
    Slice(core, 0, a - 1) \o Reverse(Slice(core, a - 1, b + 1))
        \o Slice(core, b + 1, Len(core))

\* core with core[a..b] reversed (a and b counted from 0, both included).
ReverseSegment(core, a, b) ==
    Slice(core, 0, a) \o Reverse(Slice(core, a, b + 1))
        \o Slice(core, b + 1, Len(core))

\* The full path of a core: closed with `node` when the path is to be closed.
FullPath(core, mrt, node) == IF mrt THEN Append(core, node) ELSE core

\* Improves with > for <.
ImprovesFlipped(candidate_distance, best_dist) == candidate_distance > best_dist

\* `current_segment_distance < best_distance`
Improves(candidate_distance, best_dist) == candidate_distance < best_dist

\* The path solve_tsp_2opt starts from: the caller's, or the greedy path from
\* node 0 when the caller gives none.
TwoOptStartPath ==
    IF Truthy(initial_path)
    THEN initial_path
    ELSE SolveTspGreedy(dist_matrix, 0, must_return_to_start,
                        NoneVal, NoneVal).path

\* The initial paths of a call over n points: none, every order of the
\* points (for the largest n: every order that starts at point 0), open and
\* closed.
InitialPaths(n, maxn) ==
    LET open == IF n < maxn THEN Perms(n) ELSE {p \in Perms(n) : p[1] = 0}
    IN  {NoneVal} \cup open \cup {Closed(p) : p \in open \ {<<>>}}

\* A call of solve_tsp_2opt.  With must_return_to_start the caller's path is
\* closed, or open (which the call refuses); without, it is open.
InitTwoOpt ==
    /\ pc = "2opt_call"
    /\ result = NoResult
    /\ dist_matrix \in Matrices(MaxN)
    /\ must_return_to_start \in BOOLEAN
    /\ initial_path \in InitialPaths(num_nodes, MaxN)
    /\ must_return_to_start \/ initial_path = NoneVal
          \/ Len(initial_path) = num_nodes
    /\ max_iterations \in 0..MaxIterations
    /\ start_node_idx = 0 /\ places = NoneVal /\ travel_time_matrix = NoneVal
    /\ initial_temp = 0 /\ cooling_rate = <<1, 1>> /\ min_temp = 0
    /\ max_iterations_per_temp = 0
    /\ GreedyIdle /\ BestIdle /\ TwoOptIdle /\ SAIdle

\* `if num_nodes == 0: return [], 0.0`
TwoOptEmpty ==
    /\ pc = "2opt_call"
    /\ num_nodes = 0
    /\ result' = Returned(<<>>, 0)
    /\ pc' = "done"
    /\ UNCHANGED <<args, greedy_locals, best, two_opt_locals, sa_locals>>

\* `raise ValueError(...)`: the path is to be closed and is not.
TwoOptRaise ==
    /\ pc = "2opt_call"
    /\ num_nodes # 0
    /\ Truthy(initial_path)
    /\ must_return_to_start
    /\ NotClosed(initial_path)
    /\ current_path' = initial_path
    /\ result' = Raised
    /\ pc' = "done"
    /\ UNCHANGED <<args, greedy_locals, best, two_opt_locals, current_distance,
                   path_core, unique_start_node, temp, inner>>

\* The call is accepted.
TwoOptAccepted ==
    /\ num_nodes # 0
    /\ ~ (Truthy(initial_path) /\ must_return_to_start
             /\ NotClosed(initial_path))

\* The core has fewer than 4 nodes: `return best_path, best_distance`
TwoOptTooShort ==
    /\ pc = "2opt_call"
    /\ TwoOptAccepted
    /\ TooShort(CoreOf(TwoOptStartPath, must_return_to_start))
    /\ current_path' = TwoOptStartPath
    /\ best_path' = TwoOptStartPath
    /\ best_distance' = CalculatePathDistance(TwoOptStartPath, dist_matrix)
    /\ path_to_optimize' = CoreOf(TwoOptStartPath, must_return_to_start)
    /\ result' = Returned(TwoOptStartPath,
                          CalculatePathDistance(TwoOptStartPath, dist_matrix))
    /\ pc' = "done"
    /\ UNCHANGED <<args, greedy_locals, improved, iter_count, i, j,
                   current_distance, path_core, unique_start_node, temp, inner>>

\* The locals are set up and the while loop is reached.
TwoOptBegin ==
    /\ pc = "2opt_call"
    /\ TwoOptAccepted
    /\ ~ TooShort(CoreOf(TwoOptStartPath, must_return_to_start))
    /\ current_path' = TwoOptStartPath
    /\ best_path' = TwoOptStartPath
    /\ best_distance' = CalculatePathDistance(TwoOptStartPath, dist_matrix)
    /\ path_to_optimize' = CoreOf(TwoOptStartPath, must_return_to_start)
    /\ improved' = TRUE
    /\ iter_count' = 0
    /\ pc' = "2opt_while"
    /\ UNCHANGED <<result, args, greedy_locals, i, j,
                   current_distance, path_core, unique_start_node, temp, inner>>

\* TwoOptGoesOn without the cap on the passes.
TwoOptGoesOnUncapped == improved

\* `while improved and iter_count < max_iterations`
TwoOptGoesOn == improved /\ iter_count < max_iterations

\* NextPair whose j stops one position before the end of the core.
NextPairShortOfEnd(a, b, len) ==
    IF b + 1 < len - 1 THEN <<a, b + 1>>
    ELSE IF a + 1 < len - 2 THEN <<a + 1, a + 2>>
    ELSE <<>>

\* The position pair the scan of a pass looks at after (a, b), as <<i, j>>;
\* <<>> when (a, b) was the last one.  i runs over range(1, len - 2) and j
\* over range(i + 1, len).
NextPair(a, b, len) ==
    IF b + 1 < len THEN <<a, b + 1>>
    ELSE IF a + 1 < len - 2 THEN <<a + 1, a + 2>>
    ELSE <<>>

\* A pass begins: the flag is cleared, the pass is counted and the scan
\* stands at its first position pair (a core of 4 or more nodes has one).
TwoOptPass ==
    /\ pc = "2opt_while"
    /\ TwoOptGoesOn
    /\ improved' = FALSE
    /\ iter_count' = iter_count + 1
    /\ IF 1 < Len(path_to_optimize) - 2
       THEN i' = 1 /\ j' = 2 /\ pc' = "2opt_scan"
       ELSE UNCHANGED <<i, j, pc>>
    /\ UNCHANGED <<result, args, greedy_locals, best, path_to_optimize,
                   sa_locals>>

\* The scan moves on from (i, j), or the pass ends.
ScanMovesOn ==
    LET next == NextPair(i, j, Len(path_to_optimize))
    IN  IF next = <<>>
        THEN pc' = "2opt_while" /\ UNCHANGED <<i, j>>
        ELSE pc' = "2opt_scan" /\ i' = next[1] /\ j' = next[2]

\* `if j - i == 1: continue`
TwoOptSkip ==
    /\ pc = "2opt_scan"
    /\ j - i = 1
    /\ ScanMovesOn
    /\ UNCHANGED <<result, args, greedy_locals, best, path_to_optimize,
                   improved, iter_count, sa_locals>>

\* temp_path_optimized of the position pair (i, j)
TempPathOptimized == ReverseSegment(path_to_optimize, i, j)

\* current_segment_distance of the position pair (i, j)
CurrentSegmentDistance ==
    CalculatePathDistance(
        FullPath(TempPathOptimized, must_return_to_start,
                 At(path_to_optimize, 0)),
        dist_matrix)

\* The candidate of (i, j) is strictly shorter: it becomes the best path.
TwoOptImprove ==
    /\ pc = "2opt_scan"
    /\ j - i # 1
    /\ Improves(CurrentSegmentDistance, best_distance)
    /\ path_to_optimize' = TempPathOptimized
    /\ best_path' = FullPath(TempPathOptimized, must_return_to_start,
                             At(TempPathOptimized, 0))
    /\ best_distance' = CurrentSegmentDistance
    /\ improved' = TRUE
    /\ ScanMovesOn
    /\ UNCHANGED <<result, args, greedy_locals, iter_count, sa_locals>>

\* The candidate of (i, j) is not shorter.
TwoOptKeep ==
    /\ pc = "2opt_scan"
    /\ j - i # 1
    /\ ~ Improves(CurrentSegmentDistance, best_distance)
    /\ ScanMovesOn
    /\ UNCHANGED <<result, args, greedy_locals, best, path_to_optimize,
                   improved, iter_count, sa_locals>>

\* The while loop ends: `return best_path, best_distance`
TwoOptReturn ==
    /\ pc = "2opt_while"
    /\ ~ TwoOptGoesOn
    /\ result' = Returned(best_path, best_distance)
    /\ pc' = "done"
    /\ UNCHANGED <<args, greedy_locals, best, two_opt_locals, sa_locals>>

NextTwoOpt ==
    \/ TwoOptEmpty
    \/ TwoOptRaise
    \/ TwoOptTooShort
    \/ TwoOptBegin
    \/ TwoOptPass
    \/ TwoOptSkip
    \/ TwoOptImprove
    \/ TwoOptKeep
    \/ TwoOptReturn

SpecTwoOpt == InitTwoOpt /\ [][NextTwoOpt]_vars

\* solve_tsp_2opt is sequential code: a call that can take a step takes it.
FairSpecTwoOpt == SpecTwoOpt /\ WF_vars(NextTwoOpt)

----------------------------------------------------------------------------
(* solve_tsp_simulated_annealing *)

\* A temperature is a fraction <<numerator, denominator>>.
\* `temp > min_temp`
TempAbove(t, m) == t[1] > m * t[2]

\* `temp *= cooling_rate`
Cooled(t, rate) == <<t[1] * rate[1], t[2] * rate[2]>>

\* The values `delta_distance < 0 or random.random() < math.exp(-delta_distance
\* / temp)` can take: a shorter neighbour is taken without a draw, an equally
\* long one always (the draw is below exp(0) = 1), a longer one by the draw.
MetropolisOutcomes(delta_distance) ==
    IF delta_distance <= 0 THEN {TRUE} ELSE BOOLEAN

\* BetterThanBest with != for <.
BetterThanBestOrWorse(cur_dist, best_dist) == cur_dist # best_dist

\* `current_distance < best_distance`
BetterThanBest(cur_dist, best_dist) == cur_dist < best_dist

\* The position pairs the two random.randrange draws end with, after
\* `while i == j` and the swap `if i > j`.
RandomPairs(len) == {pr \in (0..(len - 1)) \X (0..(len - 1)) : pr[1] < pr[2]}

\* The cooling rates of the checked calls: halving.
CoolingRates == {<<1, 2>>}

\* The cooling rates a caller may pass: halving, and 1, which the call
\* accepts like any other number.
AnyCoolingRates == CoolingRates \cup {<<1, 1>>}

\* What the greedy call for a missing initial path gives.
SAGreedy ==
    SolveTspGreedy(dist_matrix, start_node_idx, must_return_to_start,
                   NoneVal, NoneVal)

\* The path solve_tsp_simulated_annealing starts from.
SAStartPath == IF Truthy(initial_path) THEN initial_path ELSE SAGreedy.path

\* A call of solve_tsp_simulated_annealing with a cooling rate out of rates.
InitSAWith(rates) ==
    /\ pc = "sa_call"
    /\ result = NoResult
    /\ dist_matrix \in Matrices(MaxNodesSA)
    /\ must_return_to_start \in BOOLEAN
    /\ initial_path \in InitialPaths(num_nodes, MaxNodesSA)
    /\ must_return_to_start \/ initial_path = NoneVal
          \/ Len(initial_path) = num_nodes
    /\ start_node_idx \in
          IF initial_path = NoneVal THEN (0 - 1)..num_nodes ELSE {0}
    /\ initial_temp \in 1..MaxTemp
    /\ cooling_rate \in rates
    /\ min_temp = MinTemp
    /\ max_iterations_per_temp \in 0..MaxInner
    /\ max_iterations = 0 /\ places = NoneVal /\ travel_time_matrix = NoneVal
    /\ GreedyIdle /\ BestIdle /\ TwoOptIdle /\ SAIdle

\* A call of solve_tsp_simulated_annealing that cools.
InitSA == InitSAWith(CoolingRates)

\* `if num_nodes == 0: return [], 0.0`
SAEmpty ==
    /\ pc = "sa_call"
    /\ num_nodes = 0
    /\ result' = Returned(<<>>, 0)
    /\ pc' = "done"
    /\ UNCHANGED <<args, greedy_locals, best, two_opt_locals, sa_locals>>

\* One point: `return [0,0], 0.0` or `return [0], 0.0`
SASingle ==
    /\ pc = "sa_call"
    /\ num_nodes = 1
    /\ result' = Returned(IF must_return_to_start THEN <<0, 0>> ELSE <<0>>, 0)
    /\ pc' = "done"
    /\ UNCHANGED <<args, greedy_locals, best, two_opt_locals, sa_locals>>

\* `raise ValueError(...)`: the path is to be closed and is not.
SARaise ==
    /\ pc = "sa_call"
    /\ num_nodes >= 2
    /\ Truthy(initial_path)
    /\ must_return_to_start
    /\ NotClosed(initial_path)
    /\ current_path' = initial_path
    /\ result' = Raised
    /\ pc' = "done"
    /\ UNCHANGED <<args, greedy_locals, best, two_opt_locals, current_distance,
                   path_core, unique_start_node, temp, inner>>

\* No initial path, and solve_tsp_greedy raises for the start index.
SAInvalidStart ==
    /\ pc = "sa_call"
    /\ num_nodes >= 2
    /\ ~ Truthy(initial_path)
    /\ SAGreedy.status = "raised"
    /\ result' = Raised
    /\ pc' = "done"
    /\ UNCHANGED <<args, greedy_locals, best, two_opt_locals, sa_locals>>

\* The locals are set up and the while loop is reached.  (The greedy path of
\* a matrix of 2 or more points is never empty, and neither is the core.)
SABegin ==
    /\ pc = "sa_call"
    /\ num_nodes >= 2
    /\ IF Truthy(initial_path)
       THEN ~ (must_return_to_start /\ NotClosed(initial_path))
       ELSE SAGreedy.status = "returned"
    /\ current_path' = SAStartPath
    /\ current_distance' = CalculatePathDistance(SAStartPath, dist_matrix)
    /\ best_path' = SAStartPath
    /\ best_distance' = CalculatePathDistance(SAStartPath, dist_matrix)
    /\ temp' = <<initial_temp, 1>>
    /\ path_core' = CoreOf(SAStartPath, must_return_to_start)
    /\ unique_start_node' = At(CoreOf(SAStartPath, must_return_to_start), 0)
    /\ pc' = "sa_while"
    /\ UNCHANGED <<result, args, greedy_locals, two_opt_locals, inner>>

\* `while temp > min_temp`: the for loop of this temperature begins.
SALevel ==
    /\ pc = "sa_while"
    /\ TempAbove(temp, min_temp)
    /\ inner' = 0
    /\ pc' = "sa_for"
    /\ UNCHANGED <<result, args, greedy_locals, best, two_opt_locals,
                   current_path, current_distance, path_core,
                   unique_start_node, temp>>

\* The for loop goes on: iterations are left and the core has two positions.
SAForGoesOn == inner < max_iterations_per_temp /\ ~ (Len(path_core) < 2)

\* neighbor_core of the position pair (a, b)
NeighborCore(a, b) == ReverseSegment(path_core, a, b)

\* NeighborDistance that leaves out the edge back to the start.
NeighborDistanceOfCore(a, b) ==
    CalculatePathDistance(NeighborCore(a, b), dist_matrix)

\* neighbor_distance of the position pair (a, b)
NeighborDistance(a, b) ==
    CalculatePathDistance(
        FullPath(NeighborCore(a, b), must_return_to_start, unique_start_node),
        dist_matrix)

\* One iteration of the for loop whose neighbour is taken.  (The drawn
\* positions are the pair pr; nothing reads them once the iteration is over,
\* so they are not kept in i and j.)
SAAccept ==
    /\ pc = "sa_for"
    /\ SAForGoesOn
    /\ \E pr \in RandomPairs(Len(path_core)) :
         /\ TRUE \in MetropolisOutcomes(
                        NeighborDistance(pr[1], pr[2]) - current_distance)
         /\ path_core' = NeighborCore(pr[1], pr[2])
         /\ current_distance' = NeighborDistance(pr[1], pr[2])
         /\ current_path' = FullPath(NeighborCore(pr[1], pr[2]),
                                     must_return_to_start, unique_start_node)
         /\ IF BetterThanBest(NeighborDistance(pr[1], pr[2]), best_distance)
            THEN /\ best_path' = FullPath(NeighborCore(pr[1], pr[2]),
                                         must_return_to_start,
                                         unique_start_node)
                 /\ best_distance' = NeighborDistance(pr[1], pr[2])
            ELSE UNCHANGED best
    /\ inner' = inner + 1
    /\ UNCHANGED <<pc, result, args, greedy_locals, two_opt_locals,
                   unique_start_node, temp>>

\* One iteration of the for loop whose neighbour is not taken.
SAReject ==
    /\ pc = "sa_for"
    /\ SAForGoesOn
    /\ \E pr \in RandomPairs(Len(path_core)) :
         FALSE \in MetropolisOutcomes(
                      NeighborDistance(pr[1], pr[2]) - current_distance)
    /\ inner' = inner + 1
    /\ UNCHANGED <<pc, result, args, greedy_locals, best, two_opt_locals,
                   current_path, current_distance, path_core,
                   unique_start_node, temp>>

\* The for loop is over (or left by `break`): `temp *= cooling_rate`, and
\* the while loop is left too when the core has fewer than 2 positions.
SACool ==
    /\ pc = "sa_for"
    /\ ~ SAForGoesOn
    /\ temp' = Cooled(temp, cooling_rate)
    /\ IF Len(path_core) < 2
       THEN /\ result' = Returned(best_path, best_distance)
            /\ pc' = "done"
       ELSE /\ pc' = "sa_while"
            /\ UNCHANGED result
    /\ UNCHANGED <<args, greedy_locals, best, two_opt_locals, current_path,
                   current_distance, path_core, unique_start_node, inner>>

\* The while loop ends: `return best_path, best_distance`
SAReturn ==
    /\ pc = "sa_while"
    /\ ~ TempAbove(temp, min_temp)
    /\ result' = Returned(best_path, best_distance)
    /\ pc' = "done"
    /\ UNCHANGED <<args, greedy_locals, best, two_opt_locals, sa_locals>>

NextSA ==
    \/ SAEmpty
    \/ SASingle
    \/ SARaise
    \/ SAInvalidStart
    \/ SABegin
    \/ SALevel
    \/ SAAccept
    \/ SAReject
    \/ SACool
    \/ SAReturn

SpecSA == InitSA /\ [][NextSA]_vars

\* solve_tsp_simulated_annealing with any cooling rate, as the sequential
\* code it is: a call that can take a step takes it.
InitSAAnyRate == InitSAWith(AnyCoolingRates)

FairSpecSA == InitSAAnyRate /\ [][NextSA]_vars /\ WF_vars(NextSA)

----------------------------------------------------------------------------
(* Any call of the three functions. *)

Init == InitGreedy \/ InitTwoOpt \/ InitSA

Next == NextGreedy \/ NextTwoOpt \/ NextSA

Spec == Init /\ [][Next]_vars

\* Any call of the two refiners.
InitRefiner == InitTwoOpt \/ InitSA

NextRefiner == NextTwoOpt \/ NextSA

SpecRefiner == InitRefiner /\ [][NextRefiner]_vars

----------------------------------------------------------------------------
(* calculate_distance_matrix and haversine of src/distance.py.  Latitudes   *)
(* and longitudes are whole multiples of 90 degrees, where sine and cosine  *)
(* are -1, 0 or 1 and the formula is worked out without rounding; the       *)
(* distance is in whole kilometres.                                         *)

\* `r = 6371`
EarthRadiusKm == 6371

\* The latitudes and longitudes of the checked points, in degrees.
Latitudes == {0 - 90, 0, 90}

Longitudes == {0, 90, 180}

\* A Place, with the fields calculate_distance_matrix reads.
Points == [lat : Latitudes, lon : Longitudes]

\* The lists of n points, indexed from 0.
PointLists(n) == [0..(n - 1) -> Points]

\* math.cos(math.radians(deg)) for deg a multiple of 90.
CosDeg(deg) ==
    CASE deg % 360 = 0   -> 1
      [] deg % 360 = 90  -> 0
      [] deg % 360 = 180 -> 0 - 1
      [] deg % 360 = 270 -> 0

\* 2 * math.sin(math.radians(deg) / 2)**2, which is 1 - cos(deg).
TwiceSinHalfSquared(deg) == 1 - CosDeg(deg)

\* 2 * a of the haversine formula.  (The product of the two cosines is 0
\* or 1 here, so the halves add up to a whole.)
TwiceA(lat1, lon1, lat2, lon2) ==
    TwiceSinHalfSquared(lat2 - lat1)
        + CosDeg(lat1) * CosDeg(lat2) * TwiceSinHalfSquared(lon2 - lon1)

\* c = 2 * math.asin(math.sqrt(a)) in quarter turns: 0 for a = 0, a quarter
\* turn for a = 1/2 (asin of sqrt(1/2) is 45 degrees) and a half turn for
\* a = 1 (asin of 1 is 90 degrees).
QuarterTurns(twice_a) ==
    CASE twice_a = 0 -> 0
      [] twice_a = 1 -> 1
      [] twice_a = 2 -> 2

\* haversine: c * r with c in radians, a quarter turn being 3.1416 / 2.
Haversine(lat1, lon1, lat2, lon2) ==
    (QuarterTurns(TwiceA(lat1, lon1, lat2, lon2)) * 31416 * EarthRadiusKm)
        \div 20000

\* `[[0.0] * num_places for _ in range(num_places)]`
ZeroMatrix(n) == [a \in 0..(n - 1) |-> [b \in 0..(n - 1) |-> 0]]

\* WithPair that writes the cell above the diagonal only.
WithPairUpperOnly(m, a, b, distance) ==
    [m EXCEPT ![a][b] = distance]

\* `dist_matrix[i][j] = distance; dist_matrix[j][i] = distance`
WithPair(m, a, b, distance) ==
    [m EXCEPT ![a][b] = distance, ![b][a] = distance]

num_places == NumNodes(places)

\* What a call of calculate_distance_matrix gives back.
ReturnedMatrix(m) == [status |-> "returned", matrix |-> m]

\* What calculate_distance_matrix leaves alone.
not_matrix == <<start_node_idx, must_return_to_start, places,
                travel_time_matrix, initial_path, max_iterations,
                initial_temp, cooling_rate, min_temp, max_iterations_per_temp,
                greedy_locals, best, path_to_optimize, improved, iter_count,
                sa_locals>>

\* A call of calculate_distance_matrix with a list of up to MaxPlaces points.
InitMatrix ==
    /\ pc = "matrix_call"
    /\ result = NoResult
    /\ \E n \in 0..MaxPlaces : places \in PointLists(n)
    /\ dist_matrix = <<>>
    /\ start_node_idx = 0 /\ must_return_to_start = FALSE
    /\ travel_time_matrix = NoneVal
    /\ NoRefinerArgs
    /\ GreedyIdle /\ BestIdle /\ TwoOptIdle /\ SAIdle

\* The matrix of zeros is made and the outer for loop begins.
MatrixBegin ==
    /\ pc = "matrix_call"
    /\ dist_matrix' = ZeroMatrix(num_places)
    /\ i' = 0
    /\ j' = 1
    /\ pc' = "matrix_for"
    /\ UNCHANGED <<result, not_matrix>>

\* One pass of the inner for loop: the distance of the pair (i, j) is
\* worked out and written to both cells.
MatrixPair ==
    /\ pc = "matrix_for"
    /\ i < num_places
    /\ j < num_places
    /\ dist_matrix' = WithPair(dist_matrix, i, j,
                               Haversine(places[i].lat, places[i].lon,
                                         places[j].lat, places[j].lon))
    /\ j' = j + 1
    /\ UNCHANGED <<pc, result, i, not_matrix>>

\* The inner for loop of row i is over: the next row.
MatrixNextRow ==
    /\ pc = "matrix_for"
    /\ i < num_places
    /\ ~ (j < num_places)
    /\ i' = i + 1
    /\ j' = i + 2
    /\ UNCHANGED <<pc, result, dist_matrix, not_matrix>>

\* `return dist_matrix`
MatrixReturn ==
    /\ pc = "matrix_for"
    /\ ~ (i < num_places)
    /\ result' = ReturnedMatrix(dist_matrix)
    /\ pc' = "done"
    /\ UNCHANGED <<dist_matrix, i, j, not_matrix>>

NextMatrix ==
    \/ MatrixBegin
    \/ MatrixPair
    \/ MatrixNextRow
    \/ MatrixReturn

SpecMatrix == InitMatrix /\ [][NextMatrix]_vars

----------------------------------------------------------------------------
(* Properties. *)

\* The list holds every point 0..n-1 exactly once.
IsOrderOf(lst, n) == Len(lst) = n /\ Elems(lst) = 0..(n - 1)

\* The list is a closed tour of the n points: n + 1 long, ending where it
\* starts, its first n elements every point once.
IsClosedTour(lst, n) ==
    /\ Len(lst) = n + 1
    /\ At(lst, 0) = LastOf(lst)
    /\ IsOrderOf(Slice(lst, 0, n), n)

\* The list is a valid path of the n points: a closed tour when the path is
\* to return to its start, every point once when it is not.
IsValidPath(lst, n, mrt) ==
    IF mrt THEN IsClosedTour(lst, n) ELSE IsOrderOf(lst, n)

\* The sum of the matrix entries along the list.
EdgeSum(lst) == CalculatePathDistance(lst, dist_matrix)

\* The call runs without points and without travel times.
Plain == places = NoneVal /\ travel_time_matrix = NoneVal

StartInRange == 0 <= start_node_idx /\ start_node_idx < num_nodes

\* C1: a finished call of solve_tsp_greedy without points and travel times,
\* over N >= 1 points and from a valid start, has returned a path that starts
\* at the start, holds every point exactly once (and then the start once more
\* when it must return), with a distance equal to the sum of the matrix
\* entries along that path.
C1_GreedyVisitsAllAndSumsEdges ==
    (pc = "done" /\ Plain /\ num_nodes >= 1 /\ StartInRange)
    => /\ result.status = "returned"
       /\ At(result.path, 0) = start_node_idx
       /\ IsValidPath(result.path, num_nodes, must_return_to_start)
       /\ result.distance = EdgeSum(result.path)

C1_Witness ==
    /\ pc = "done" /\ Plain /\ num_nodes = MaxN /\ StartInRange
    /\ must_return_to_start
    /\ Len(result.path) = MaxN + 1
    /\ result.distance > 0

\* C6: on example_dist_matrix from start 0 without time windows the greedy
\* call returns [0,1,3,2,0] with distance 80 when it must return to the start
\* and [0,1,3,2] with distance 65 when it need not.
C6_GreedyExample ==
    (pc = "done" /\ Plain /\ dist_matrix = ExampleDistMatrix
                 /\ start_node_idx = 0)
    => result = IF must_return_to_start
                THEN Returned(<<0, 1, 3, 2, 0>>, 80)
                ELSE Returned(<<0, 1, 3, 2>>, 65)

C6_Witness ==
    /\ pc = "done" /\ Plain /\ dist_matrix = ExampleDistMatrix
    /\ start_node_idx = 0
    /\ must_return_to_start
    /\ result.path = <<0, 1, 3, 2, 0>>

\* C8 as stated: for a matrix of any size, N = 0 included, a finished call of
\* solve_tsp_greedy with a start index outside 0..N-1 has raised.
C8_InvalidStartAlwaysRaises ==
    (pc = "done" /\ ~ StartInRange) => result.status = "raised"

\* C8, amended: for N >= 1 a call with a start index outside 0..N-1 never
\* gets past the check and ends raising, with no path; for N = 0 the call
\* returns the empty path with distance 0 whatever the start index.
C8_InvalidStartRaisesUnlessEmpty ==
    /\ (num_nodes >= 1 /\ ~ StartInRange)
       => /\ pc \in {"greedy_call", "done"}
          /\ pc = "done" => result = Raised
    /\ (num_nodes = 0 /\ pc = "done") => result = Returned(<<>>, 0)

C8_Witness ==
    /\ pc = "done" /\ num_nodes >= 1 /\ start_node_idx = num_nodes
    /\ result.status = "raised"

\* Node nb is unvisited and can be reached in time: in time-window mode the
\* clock plus the travel time is not after its close time.
EligibleNow(nb) ==
    /\ nb \notin visited
    /\ (Truthy(places) /\ Truthy(travel_time_matrix)
          /\ IsSome(places[nb].close_time))
       => current_time + travel_time_matrix[current_node_idx][nb]
              <= ValueOf(places[nb].close_time)

\* C10: every step of solve_tsp_greedy that appends a node appends an
\* eligible one that no eligible node beats: none is nearer by plain distance
\* and none of lower index is equally near.
C10_GreedyAppendsNearestEligible ==
    [][ (pc = "greedy_while" /\ Len(path') = Len(path) + 1)
        => LET chosen == LastOf(path')
               d(nb) == dist_matrix[current_node_idx][nb]
           IN  /\ chosen \in 0..(num_nodes - 1)
               /\ EligibleNow(chosen)
               /\ \A nb \in 0..(num_nodes - 1) :
                     EligibleNow(nb) =>
                        \/ d(chosen) < d(nb)
                        \/ d(chosen) = d(nb) /\ chosen <= nb ]_vars

\* In time-window mode a node was just appended although a node that is
\* still unvisited was nearer by distance: the nearer one could not be
\* reached before its close time.
C10_Witness ==
    /\ pc = "greedy_while"
    /\ Truthy(places) /\ Truthy(travel_time_matrix)
    /\ Len(path) >= 2
    /\ \E nb \in 0..(num_nodes - 1) :
         /\ nb \notin visited
         /\ dist_matrix[At(path, Len(path) - 2)][nb]
                < dist_matrix[At(path, Len(path) - 2)][LastOf(path)]

\* C2: in solve_tsp_2opt best_distance never goes up from one step to the
\* next, and the path returned costs no more, by the sum of its edges, than
\* the path the call started from.
C2_TwoOptNeverWorse ==
    [][ /\ pc \in {"2opt_while", "2opt_scan"} => best_distance' <= best_distance
        /\ (pc' = "done" /\ result'.status = "returned")
           => CalculatePathDistance(result'.path, dist_matrix)
                 <= EdgeSum(TwoOptStartPath) ]_vars

C2_Witness ==
    /\ pc = "done" /\ result.status = "returned"
    /\ IsValidPath(TwoOptStartPath, num_nodes, must_return_to_start)
    /\ EdgeSum(result.path) < EdgeSum(TwoOptStartPath)

\* C5: started from a valid path, solve_tsp_2opt returns a path of the same
\* shape: as long, with the same first element and the same points, each
\* once; closed when it must return to the start and without a repeated
\* point when it need not.
C5_TwoOptKeepsShape ==
    (pc = "done" /\ result.status = "returned" /\ num_nodes >= 1
       /\ IsValidPath(TwoOptStartPath, num_nodes, must_return_to_start))
    => /\ Len(result.path) = Len(TwoOptStartPath)
       /\ At(result.path, 0) = At(TwoOptStartPath, 0)
       /\ IsValidPath(result.path, num_nodes, must_return_to_start)

C5_Witness ==
    /\ pc = "done" /\ result.status = "returned" /\ num_nodes = MaxN
    /\ must_return_to_start
    /\ IsValidPath(TwoOptStartPath, num_nodes, must_return_to_start)
    /\ result.path # TwoOptStartPath

\* The core of the caller's path: without the repeated start at its end when
\* the path is to be closed.
InitialCore ==
    IF must_return_to_start /\ Len(initial_path) > 1
          /\ initial_path[1] = initial_path[Len(initial_path)]
    THEN SubSeq(initial_path, 1, Len(initial_path) - 1)
    ELSE initial_path

\* C7: when the core of the caller's path has fewer than 4 nodes, an accepted
\* call of solve_tsp_2opt returns that path as it is, with the sum of its
\* edges, after no pass; on small_dist_matrix the greedy call gives
\* [0,1,0] with distance 2 and so does solve_tsp_2opt from it.
C7_TwoOptShortCoreUnchanged ==
    /\ (pc = "done" /\ result.status = "returned" /\ initial_path # <<>>
          /\ Len(InitialCore) < 4)
       => /\ result = Returned(initial_path, EdgeSum(initial_path))
          /\ iter_count = 0
    /\ SolveTspGreedy(SmallDistMatrix, 0, TRUE, NoneVal, NoneVal)
          = Returned(<<0, 1, 0>>, 2)
    /\ (pc = "done" /\ dist_matrix = SmallDistMatrix /\ must_return_to_start
          /\ initial_path = <<0, 1, 0>>)
       => result = Returned(<<0, 1, 0>>, 2)

C7_Witness ==
    /\ pc = "done" /\ result.status = "returned"
    /\ Len(initial_path) = 4 /\ Len(InitialCore) = 3
    /\ max_iterations > 0

\* C9: once a call of solve_tsp_2opt or solve_tsp_simulated_annealing that
\* must return to the start and was given a path whose ends differ is past
\* its entry, it has raised, with no path and without a refinement step.
C9_OpenPathRefused ==
    (/\ must_return_to_start
     /\ initial_path # <<>>
     /\ initial_path[1] # initial_path[Len(initial_path)]
     /\ pc \notin {"2opt_call", "sa_call"})
    => /\ pc = "done"
       /\ result = Raised
       /\ best_path = <<>> /\ path_to_optimize = <<>> /\ path_core = <<>>
       /\ iter_count = 0 /\ inner = 0

C9_Witness ==
    /\ pc = "done" /\ result.status = "raised"
    /\ must_return_to_start
    /\ Len(initial_path) >= 3
    /\ initial_path[1] # initial_path[Len(initial_path)]

\* C3: in solve_tsp_simulated_annealing best_distance never goes up from
\* one step to the next, and the distance returned is no more than the sum
\* of the edges of the path the call started from.
C3_AnnealingBestNeverWorse ==
    [][ /\ pc \in {"sa_while", "sa_for"} => best_distance' <= best_distance
        /\ (pc' = "done" /\ result'.status = "returned")
           => result'.distance <= EdgeSum(SAStartPath) ]_vars

\* A worsening move was taken: the current path costs more than the best.
C3_Witness ==
    /\ pc \in {"sa_while", "sa_for"}
    /\ current_distance > best_distance
    /\ best_distance < EdgeSum(SAStartPath)

\* C4 as stated: when solve_tsp_simulated_annealing must return to the start
\* and starts from a closed tour of N >= 2 points, its current path and its
\* best path are closed tours at every step, and so is the path returned.
C4_AnnealingKeepsToursClosed ==
    (/\ must_return_to_start
     /\ num_nodes >= 2
     /\ IsClosedTour(SAStartPath, num_nodes)
     /\ pc \in {"sa_while", "sa_for", "done"}
     /\ result.status # "raised")
    => /\ IsClosedTour(current_path, num_nodes)
       /\ IsClosedTour(best_path, num_nodes)
       /\ pc = "done" => IsClosedTour(result.path, num_nodes)

\* The call runs in time-window mode: with points and with travel times.
InTimeWindowMode == places # NoneVal /\ travel_time_matrix # NoneVal

\* No unvisited node can be reached before it closes.
NoneEligible == \A nb \in 0..(num_nodes - 1) : ~ EligibleNow(nb)

\* The list has no element twice.
NoRepeat(lst) == Cardinality(Elems(lst)) = Len(lst)

\* C11: in time-window mode, the pass of the while loop of solve_tsp_greedy
\* that finds no eligible unvisited node ends the call without an error: the
\* call returns the path built so far, which has fewer than N nodes, starts
\* at the start index, has no index twice and is not closed with the start
\* even when it must return; the distance is the sum of its edges.
C11_GreedyHaltsWithPartialPath ==
    [][ (pc = "greedy_while" /\ InTimeWindowMode /\ Len(path) < num_nodes
           /\ NoneEligible)
        => /\ pc' = "done"
           /\ result'.status = "returned"
           /\ result'.path = path
           /\ Len(result'.path) < num_nodes
           /\ At(result'.path, 0) = start_node_idx
           /\ NoRepeat(result'.path)
           /\ result'.distance
                 = CalculatePathDistance(result'.path, dist_matrix) ]_vars

\* A call that must return has halted after its second node, with a third
\* node left out.
C11_Witness ==
    /\ pc = "done" /\ InTimeWindowMode /\ must_return_to_start
    /\ result.status = "returned"
    /\ Len(result.path) >= 2 /\ Len(result.path) < num_nodes
    /\ result.distance > 0

\* The return leg may be taken: every node is in the path and, in
\* time-window mode, the clock plus the travel time back to the start is not
\* after the start's close time.
ReturnLegAllowed ==
    /\ Len(path) = num_nodes
    /\ (InTimeWindowMode /\ IsSome(places[start_node_idx].close_time))
       => current_time + travel_time_matrix[LastOf(path)][start_node_idx]
              <= ValueOf(places[start_node_idx].close_time)

\* C12: when solve_tsp_greedy leaves its while loop and must return to the
\* start, it appends the start and adds the return edge to the distance if
\* the return leg may be taken, and otherwise returns the path and the
\* distance as they stand.
C12_GreedyReturnLeg ==
    [][ (pc = "greedy_while" /\ pc' = "done" /\ must_return_to_start)
        => IF ReturnLegAllowed
           THEN /\ result'.path = Append(path, start_node_idx)
                /\ result'.distance = total_distance
                      + dist_matrix[LastOf(path)][start_node_idx]
                /\ result'.distance = CalculatePathDistance(result'.path,
                                                            dist_matrix)
           ELSE /\ result'.path = path
                /\ result'.distance = total_distance
                /\ result'.distance = CalculatePathDistance(path, dist_matrix)
      ]_vars

\* Every node was visited, and the start had closed by the time of the
\* return: the path stays open.
C12_Witness ==
    /\ pc = "done" /\ InTimeWindowMode /\ must_return_to_start
    /\ num_nodes >= 2
    /\ Len(path) = num_nodes
    /\ result = Returned(path, total_distance)

\* C15: in time-window mode the clock of solve_tsp_greedy starts at the
\* start's open time, if that is after hour 0, and at 0 otherwise; appending
\* a node sets it to the clock plus the travel time, or to the node's open
\* time if that is later, so it never goes back and lies within the node's
\* window; the distance grows by the plain distance of the edge, whatever
\* the wait, and the distance returned is the sum of the edges of the path.
C15_GreedyClock ==
    [][ /\ (pc = "greedy_call" /\ pc' = "greedy_while" /\ InTimeWindowMode)
           => current_time'
                 = IF IsSome(places[start_node_idx].open_time)
                      /\ ValueOf(places[start_node_idx].open_time) > 0
                   THEN ValueOf(places[start_node_idx].open_time)
                   ELSE 0
        /\ (pc = "greedy_while" /\ InTimeWindowMode
               /\ Len(path') = Len(path) + 1)
           => LET nb == LastOf(path')
                  arrival == current_time
                                + travel_time_matrix[current_node_idx][nb]
                  window == places[nb]
              IN  /\ current_time'
                        = IF IsSome(window.open_time)
                             /\ ValueOf(window.open_time) > arrival
                          THEN ValueOf(window.open_time)
                          ELSE arrival
                  /\ current_time' >= current_time
                  /\ IsSome(window.open_time)
                        => current_time' >= ValueOf(window.open_time)
                  /\ IsSome(window.close_time)
                        => current_time' <= ValueOf(window.close_time)
                  /\ total_distance'
                        = total_distance + dist_matrix[current_node_idx][nb]
        /\ (pc' = "done" /\ result'.status = "returned" /\ InTimeWindowMode)
           => result'.distance
                 = CalculatePathDistance(result'.path, dist_matrix)
      ]_vars

\* The call has waited on its way: its clock is ahead of the start time
\* plus the travel times along the path.
C15_Witness ==
    /\ pc = "done" /\ InTimeWindowMode /\ result.status = "returned"
    /\ Len(path) = num_nodes /\ num_nodes >= 3
    /\ current_time > CalculatePathDistance(path, travel_time_matrix)
                         + (IF IsSome(places[start_node_idx].open_time)
                            THEN ValueOf(places[start_node_idx].open_time)
                            ELSE 0)
    /\ total_distance = CalculatePathDistance(path, dist_matrix)
    /\ total_distance > 0

\* C18 as stated: a finished call of solve_tsp_greedy that was given the
\* points without the travel times, or the travel times without the points,
\* has the result of the call with the same matrix, start index and return
\* flag that is given neither.
C18_OneOfTwoChangesNothing ==
    (pc = "done" /\ ~ InTimeWindowMode)
    => result = SolveTspGreedy(dist_matrix, start_node_idx,
                               must_return_to_start, NoneVal, NoneVal)

\* C13: every call of solve_tsp_2opt ends; it never begins more than
\* max_iterations passes; and when the while loop is reached with that many
\* passes done and the last one having improved the path, the call returns
\* the best path and its distance, without an error.
C13_TwoOptEndsWithinCap ==
    /\ <>(pc = "done")
    /\ [](iter_count <= max_iterations)
    /\ [][ (pc = "2opt_while" /\ improved /\ iter_count >= max_iterations)
            => /\ pc' = "done"
               /\ result' = [status |-> "returned", path |-> best_path,
                             distance |-> best_distance] ]_vars

\* The cap ended a call whose last pass had still improved the path.
C13_Witness ==
    /\ pc = "done" /\ result.status = "returned"
    /\ improved /\ iter_count = max_iterations /\ max_iterations >= 1
    /\ result.distance < CalculatePathDistance(TwoOptStartPath, dist_matrix)

\* The cost of the path that list `full` becomes when positions a..b of its
\* core are reversed (and the tour is closed again when it must return).
CostAfterReversal(full, a, b) ==
    LET core == IF must_return_to_start THEN SubSeq(full, 1, Len(full) - 1)
                ELSE full
        rev == [k \in 1..Len(core) |->
                   IF a + 1 <= k /\ k <= b + 1 THEN core[a + b + 2 - k]
                   ELSE core[k]]
    IN  CalculatePathDistance(
            IF must_return_to_start THEN Append(rev, rev[1]) ELSE rev,
            dist_matrix)

\* The length of the core of the path returned.
ReturnedCoreLength ==
    IF must_return_to_start THEN Len(result.path) - 1 ELSE Len(result.path)

\* C16: when solve_tsp_2opt returns after a pass that took no improvement,
\* no reversal of positions i..j of the core of the path returned, with
\* 1 <= i <= length - 3 and i + 2 <= j <= length - 1, gives a strictly
\* shorter path.
C16_TwoOptLocalOptimum ==
    (pc = "done" /\ result.status = "returned" /\ iter_count >= 1
       /\ ~ improved)
    => \A a \in 1..(ReturnedCoreLength - 3) :
          \A b \in (a + 2)..(ReturnedCoreLength - 1) :
             CostAfterReversal(result.path, a, b) >= result.distance

\* A first pass improved the path and a second one found nothing better.
C16_Witness ==
    /\ pc = "done" /\ result.status = "returned"
    /\ ~ improved /\ iter_count = 2 /\ max_iterations > 2
    /\ ReturnedCoreLength >= 5
    /\ result.distance < CalculatePathDistance(TwoOptStartPath, dist_matrix)

\* C20: while solve_tsp_2opt or solve_tsp_simulated_annealing runs,
\* best_distance is the sum of the matrix entries along best_path and, in
\* annealing, current_distance is the sum along current_path; the distance
\* a call returns is the sum along the path it returns.
C20_DistancesInStep ==
    /\ pc \in {"2opt_while", "2opt_scan", "sa_while", "sa_for"}
          => best_distance = CalculatePathDistance(best_path, dist_matrix)
    /\ pc \in {"sa_while", "sa_for"}
          => current_distance
                = CalculatePathDistance(current_path, dist_matrix)
    /\ (pc = "done" /\ result.status = "returned")
          => result.distance = CalculatePathDistance(result.path, dist_matrix)

\* Annealing has returned a closed path that is shorter than the one it
\* began with, after moving on to a current path that is longer.
C20_Witness ==
    /\ pc = "done" /\ result.status = "returned" /\ must_return_to_start
    /\ path_core # <<>>
    /\ current_path # best_path
    /\ current_distance > best_distance
    /\ result.path = best_path
    /\ result.distance < CalculatePathDistance(SAStartPath, dist_matrix)

\* C19 as stated: the path solve_tsp_simulated_annealing returns begins at
\* the node the path it started from begins at, whether or not it must
\* return to the start.
C19_AnnealingKeepsStartNode ==
    (pc = "done" /\ result.status = "returned" /\ path_core # <<>>)
    => result.path[1] = SAStartPath[1]

\* C17 as stated: every call of solve_tsp_simulated_annealing, whatever its
\* cooling schedule, comes to its end: it raises at once or it returns.
C17_AnnealingAlwaysReturns == <>(pc = "done")

\* C14: the matrix calculate_distance_matrix returns for a list of N points
\* has N rows of N entries, equal entries at (a, b) and (b, a), zeros on the
\* diagonal and no negative entry; it is empty for N = 0 and the single
\* entry 0 for N = 1.
C14_MatrixSymmetricZeroDiagonal ==
    pc = "done"
    => LET m == result.matrix
           rows == 0..(NumNodes(places) - 1)
       IN  /\ result.status = "returned"
           /\ DOMAIN m = rows
           /\ \A a \in rows :
                 /\ DOMAIN m[a] = rows
                 /\ m[a][a] = 0
                 /\ \A b \in rows : m[a][b] = m[b][a] /\ m[a][b] >= 0
           /\ NumNodes(places) = 0 => m = <<>>
           /\ NumNodes(places) = 1 => m[0][0] = 0

\* A matrix of the largest size was returned, with a quarter turn and a
\* half turn among its distances.
C14_Witness ==
    /\ pc = "done" /\ result.status = "returned"
    /\ NumNodes(places) = MaxPlaces
    /\ \E a, b, c \in 0..(MaxPlaces - 1) :
          /\ a < b /\ b < c
          /\ result.matrix[c][a] > result.matrix[b][a]
          /\ result.matrix[b][a] > 0

====
